---- MODULE Spec2Model ----
(***************************************************************************)
(* Model of the Gokaraju student-portal scraper (src/app.py).              *)
(*                                                                         *)
(* Two state machines share the module:                                    *)
(*   Spec        one HTTP request: the Flask handler, the scrapers it runs *)
(*               through asyncio.run, and the browser session of each.     *)
(*   SpecExtract the table extraction and row normalisation functions      *)
(*               applied to bounded page contents.                         *)
(*                                                                         *)
(* Text is a sequence of one-character strings, so that strip(), lower(),  *)
(* startswith(), "in" and isdigit() are computed as Python computes them.  *)
(***************************************************************************)
EXTENDS Integers, Sequences, FiniteSets, TLC

VARIABLES
    route,      \* the Flask route of the request
    body,       \* what request.get_json() finds: "ok", "malformed", "null"
    hpc,        \* position of the handler: "get_json", "run", "except", "done"
    todo,       \* scrapers the handler has still to call, in call order
    scraper,    \* the scraper of the current (or last) asyncio.run
    spc,        \* index of the next step of the running scraper in its Program
    outcome,    \* of the current invocation: "idle", "running", "returned", "raised"
    sessions,   \* browsers launched and not yet closed by browser.close()
    closes,     \* browser.close() calls of the current invocation
    pwActive,   \* inside the "async with async_playwright()" block
    trace,      \* events of the current invocation, in order
    started,    \* scrapers called by this request, in order
    results,    \* scrapers whose return value the handler holds
    status,     \* HTTP status of the response, 0 while there is none
    reply,      \* key of the response body: "none", "data", "error"
    raisedAny,  \* an exception was raised somewhere in the request
    failedAt,   \* the step whose exception reached the handler, or "none"
    report,     \* SpecExtract: the extraction routine under study
    page,       \* SpecExtract: the content of the page it reads
    result,     \* SpecExtract: what the routine returned
    xpc         \* SpecExtract: "loaded" before the routine ran, "extracted" after

httpVars == <<route, body, hpc, todo, scraper, spc, outcome, sessions, closes,
              pwActive, trace, started, results, status, reply, raisedAny, failedAt>>
extractVars == <<report, page, result, xpc>>
vars == <<route, body, hpc, todo, scraper, spc, outcome, sessions, closes,
          pwActive, trace, started, results, status, reply, raisedAny, failedAt,
          report, page, result, xpc>>

(***************************************************************************)
(* The request handlers and the scrapers                                   *)
(***************************************************************************)

Routes == {"/get-timetable-and-calendar", "/get-attendance",
           "/get-library-books", "/get-bio-data", "/get-all"}

Bodies == {"ok", "malformed", "null"}

\* The scrapers each route calls, in call order.
RouteScrapers(r) ==
    CASE r = "/get-timetable-and-calendar" -> <<"fetch_timetable_and_calendar">>
      [] r = "/get-attendance"             -> <<"fetch_attendance">>
      [] r = "/get-library-books"          -> <<"fetch_library_books">>
      [] r = "/get-bio-data"               -> <<"fetch_bio_data">>
      [] r = "/get-all"                    -> <<"fetch_timetable_and_calendar",
                                                "fetch_attendance",
                                                "fetch_library_books",
                                                "fetch_bio_data">>

\* The awaits of login_and_get_page, in order.
LoginSteps == <<"launch", "new_page", "goto_login", "fill_form", "settle_login">>

Program_PersistBeforeClose(s) ==
    CASE s = "fetch_timetable_and_calendar" ->
            LoginSteps \o <<"goto_report", "wait_marker", "extract_timetable",
                            "goto_calendar", "settle", "extract_calendar",
                            "close", "return">>
      [] s = "fetch_attendance" ->
            LoginSteps \o <<"goto_report", "wait_networkidle", "try_filter",
                            "settle", "extract", "persist", "close", "return">>
      [] s = "fetch_library_books" ->
            LoginSteps \o <<"goto_report", "settle", "extract", "persist",
                            "close", "return">>
      [] s = "fetch_bio_data" ->
            LoginSteps \o <<"goto_report", "settle", "try_tab", "extract",
                            "persist", "close", "return">>

\* The steps of each scraper, in the order its code takes them.
Program(s) ==
    CASE s = "fetch_timetable_and_calendar" ->
            LoginSteps \o <<"goto_report", "wait_marker", "extract_timetable",
                            "goto_calendar", "settle", "extract_calendar",
                            "close", "return">>
      [] s = "fetch_attendance" ->
            LoginSteps \o <<"goto_report", "wait_networkidle", "try_filter",
                            "settle", "extract", "close", "persist", "return">>
      [] s = "fetch_library_books" ->
            LoginSteps \o <<"goto_report", "settle", "extract", "close",
                            "persist", "return">>
      [] s = "fetch_bio_data" ->
            LoginSteps \o <<"goto_report", "settle", "try_tab", "extract",
                            "close", "persist", "return">>

\* The artifacts a scraper writes after browser.close().
PersistFiles(s) ==
    CASE s = "fetch_attendance"    -> <<"attendance_data.json", "attendance_data.csv">>
      [] s = "fetch_library_books" -> <<"library_books.json", "library_books.csv">>
      [] s = "fetch_bio_data"      -> <<"bio_data.json", "bio_data.csv">>
      [] OTHER                     -> <<>>

ArtifactFiles == {"timetable.json", "faculty_allocation.json", "academic_calendar.json",
                  "attendance_data.json", "attendance_data.csv",
                  "library_books.json", "library_books.csv",
                  "bio_data.json", "bio_data.csv"}

\* Trace events: a step name, or the name of an artifact file written.
WriteEvent(f) == f
IsWrite(e) == e \in ArtifactFiles

Running == outcome = "running"
CurStep == IF Running THEN Program(scraper)[spc] ELSE "none"

\* The awaits that raise into the scraper's caller when they fail.
RaisingSteps == {"launch", "new_page", "goto_login", "fill_form", "settle_login",
                 "goto_report", "wait_marker", "wait_networkidle", "settle",
                 "extract", "extract_timetable", "goto_calendar",
                 "extract_calendar", "persist"}

InitHttp ==
    /\ route \in Routes
    /\ body \in Bodies
    /\ hpc = "get_json"
    /\ todo = <<>>
    /\ scraper = "none"
    /\ spc = 0
    /\ outcome = "idle"
    /\ sessions = 0
    /\ closes = 0
    /\ pwActive = FALSE
    /\ trace = <<>>
    /\ started = <<>>
    /\ results = {}
    /\ status = 0
    /\ reply = "none"
    /\ raisedAny = FALSE
    /\ failedAt = "none"

IdleExtract ==
    /\ report = "none"
    /\ page = <<>>
    /\ result = <<>>
    /\ xpc = "idle"

Init == InitHttp /\ IdleExtract

\* request.get_json() and the two creds.get(): a malformed body raises
\* BadRequest, a null body makes creds.get raise AttributeError.
ParseBody ==
    /\ hpc = "get_json"
    /\ IF body = "ok"
         THEN /\ hpc' = "run"
              /\ todo' = RouteScrapers(route)
              /\ UNCHANGED <<raisedAny, failedAt>>
         ELSE /\ hpc' = "except"
              /\ raisedAny' = TRUE
              /\ failedAt' = "get_json"
              /\ UNCHANGED todo
    /\ UNCHANGED <<route, body, scraper, spc, outcome, sessions, closes, pwActive,
                   trace, started, results, status, reply>>
    /\ UNCHANGED extractVars

\* asyncio.run(fetch_x(...)) up to the entry of the async with block.
StartScraper ==
    /\ hpc = "run"
    /\ outcome = "idle"
    /\ todo # <<>>
    /\ scraper' = Head(todo)
    /\ todo' = Tail(todo)
    /\ started' = Append(started, Head(todo))
    /\ spc' = 1
    /\ outcome' = "running"
    /\ closes' = 0
    /\ trace' = <<>>
    /\ pwActive' = TRUE
    /\ UNCHANGED <<route, body, hpc, sessions, results, status, reply, raisedAny, failedAt>>
    /\ UNCHANGED extractVars

\* A step that completes and leaves the event ev in the trace.
Advance(evs) ==
    /\ spc' = spc + 1
    /\ trace' = trace \o evs

\* playwright.chromium.launch
Launch ==
    /\ CurStep = "launch"
    /\ sessions' = sessions + 1
    /\ Advance(<<"launch">>)
    /\ UNCHANGED <<route, body, hpc, todo, scraper, outcome, closes, pwActive,
                   started, results, status, reply, raisedAny, failedAt>>
    /\ UNCHANGED extractVars

\* new_page, the login navigation, the form fill and click, the settle waits,
\* the report navigations and the marker waits: awaits without effect on the
\* session or the artifacts.
PageStep ==
    /\ CurStep \in {"new_page", "goto_login", "fill_form", "settle_login",
                    "goto_report", "wait_marker", "wait_networkidle", "settle",
                    "goto_calendar"}
    /\ Advance(<<CurStep>>)
    /\ UNCHANGED <<route, body, hpc, todo, scraper, outcome, sessions, closes, pwActive,
                   started, results, status, reply, raisedAny, failedAt>>
    /\ UNCHANGED extractVars

\* The best-effort interactions (attendance filter, BIO-DATA tab): an
\* exception raised inside them is swallowed by "except Exception: pass".
BestEffort ==
    /\ CurStep \in {"try_filter", "try_tab"}
    /\ \E ok \in BOOLEAN :
          /\ raisedAny' = (raisedAny \/ ~ok)
          /\ Advance(<<IF ok THEN CurStep ELSE "swallowed">>)
    /\ UNCHANGED <<route, body, hpc, todo, scraper, outcome, sessions, closes, pwActive,
                   started, results, status, reply, failedAt>>
    /\ UNCHANGED extractVars

\* The row loops of fetch_attendance, fetch_library_books and fetch_bio_data.
Extract ==
    /\ CurStep = "extract"
    /\ Advance(<<"extract">>)
    /\ UNCHANGED <<route, body, hpc, todo, scraper, outcome, sessions, closes, pwActive,
                   started, results, status, reply, raisedAny, failedAt>>
    /\ UNCHANGED extractVars

\* extract_timetable_and_faculty: the table loop, then timetable.json and
\* faculty_allocation.json, each written when its list is not empty.
ExtractTimetable ==
    /\ CurStep = "extract_timetable"
    /\ \E tt \in BOOLEAN, fac \in BOOLEAN :
          Advance(<<"extract">>
                  \o (IF tt THEN <<WriteEvent("timetable.json")>> ELSE <<>>)
                  \o (IF fac THEN <<WriteEvent("faculty_allocation.json")>> ELSE <<>>))
    /\ UNCHANGED <<route, body, hpc, todo, scraper, outcome, sessions, closes, pwActive,
                   started, results, status, reply, raisedAny, failedAt>>
    /\ UNCHANGED extractVars

\* extract_academic_calendar: academic_calendar.json written when not empty.
ExtractCalendar ==
    /\ CurStep = "extract_calendar"
    /\ \E cal \in BOOLEAN :
          Advance(<<"extract_calendar">>
                  \o (IF cal THEN <<WriteEvent("academic_calendar.json")>> ELSE <<>>))
    /\ UNCHANGED <<route, body, hpc, todo, scraper, outcome, sessions, closes, pwActive,
                   started, results, status, reply, raisedAny, failedAt>>
    /\ UNCHANGED extractVars

CloseBrowser_Forgotten ==
    /\ CurStep = "close"
    /\ Advance(<<"close">>)
    /\ UNCHANGED <<route, body, hpc, todo, scraper, outcome, sessions, closes, pwActive,
                   started, results, status, reply, raisedAny, failedAt>>
    /\ UNCHANGED extractVars

\* await browser.close()
CloseBrowser ==
    /\ CurStep = "close"
    /\ sessions' = sessions - 1
    /\ closes' = closes + 1
    /\ Advance(<<"close">>)
    /\ UNCHANGED <<route, body, hpc, todo, scraper, outcome, pwActive,
                   started, results, status, reply, raisedAny, failedAt>>
    /\ UNCHANGED extractVars

\* The JSON and CSV files written after browser.close().
Persist ==
    /\ CurStep = "persist"
    /\ Advance(<<WriteEvent(PersistFiles(scraper)[1]), WriteEvent(PersistFiles(scraper)[2])>>)
    /\ UNCHANGED <<route, body, hpc, todo, scraper, outcome, sessions, closes, pwActive,
                   started, results, status, reply, raisedAny, failedAt>>
    /\ UNCHANGED extractVars

\* return from inside the async with block: the block exits, then the
\* coroutine ends.
Return ==
    /\ CurStep = "return"
    /\ outcome' = "returned"
    /\ pwActive' = FALSE
    /\ trace' = Append(trace, "return")
    /\ UNCHANGED <<route, body, hpc, todo, scraper, spc, sessions, closes,
                   started, results, status, reply, raisedAny, failedAt>>
    /\ UNCHANGED extractVars

\* An await of the scraper raises (playwright Error or TimeoutError, OSError
\* from a file write). No scraper has a try/finally: the exception leaves the
\* async with block, whose exit stops playwright, and then the coroutine;
\* browser.close() is not reached.
Raise ==
    /\ CurStep \in RaisingSteps
    /\ outcome' = "raised"
    /\ failedAt' = CurStep
    /\ raisedAny' = TRUE
    /\ pwActive' = FALSE
    /\ UNCHANGED <<route, body, hpc, todo, scraper, spc, sessions, closes, trace,
                   started, results, status, reply>>
    /\ UNCHANGED extractVars

\* asyncio.run returned: the handler keeps the value and goes on to its
\* next statement.
ScraperReturned ==
    /\ hpc = "run"
    /\ outcome = "returned"
    /\ results' = results \cup {scraper}
    /\ outcome' = "idle"
    /\ UNCHANGED <<route, body, hpc, todo, scraper, spc, sessions, closes, pwActive,
                   trace, started, status, reply, raisedAny, failedAt>>
    /\ UNCHANGED extractVars

\* return jsonify({"data": ...})
Respond200 ==
    /\ hpc = "run"
    /\ outcome = "idle"
    /\ todo = <<>>
    /\ status' = 200
    /\ reply' = "data"
    /\ hpc' = "done"
    /\ UNCHANGED <<route, body, todo, scraper, spc, outcome, sessions, closes, pwActive,
                   trace, started, results, raisedAny, failedAt>>
    /\ UNCHANGED extractVars

CatchException_Status200 ==
    /\ \/ hpc = "except"
       \/ hpc = "run" /\ outcome = "raised"
    /\ status' = 200
    /\ reply' = "error"
    /\ hpc' = "done"
    /\ UNCHANGED <<route, body, todo, scraper, spc, outcome, sessions, closes, pwActive,
                   trace, started, results, raisedAny, failedAt>>
    /\ UNCHANGED extractVars

CatchException_Continue ==
    /\ \/ hpc = "except"
       \/ hpc = "run" /\ outcome = "raised"
    /\ IF hpc = "run" /\ todo # <<>>
         THEN /\ outcome' = "idle"
              /\ UNCHANGED <<status, reply, hpc>>
         ELSE /\ status' = 500
              /\ reply' = "error"
              /\ hpc' = "done"
              /\ UNCHANGED outcome
    /\ UNCHANGED <<route, body, todo, scraper, spc, sessions, closes, pwActive,
                   trace, started, results, raisedAny, failedAt>>
    /\ UNCHANGED extractVars

\* except Exception as e: return jsonify({"error": str(e)}), 500
CatchException ==
    /\ \/ hpc = "except"
       \/ hpc = "run" /\ outcome = "raised"
    /\ status' = 500
    /\ reply' = "error"
    /\ hpc' = "done"
    /\ UNCHANGED <<route, body, todo, scraper, spc, outcome, sessions, closes, pwActive,
                   trace, started, results, raisedAny, failedAt>>
    /\ UNCHANGED extractVars

Next ==
    \/ ParseBody
    \/ StartScraper
    \/ Launch
    \/ PageStep
    \/ BestEffort
    \/ Extract
    \/ ExtractTimetable
    \/ ExtractCalendar
    \/ CloseBrowser
    \/ Persist
    \/ Return
    \/ Raise
    \/ ScraperReturned
    \/ Respond200
    \/ CatchException

Spec == Init /\ [][Next]_vars


(***************************************************************************)
(* Text: Python str operations on sequences of characters                  *)
(***************************************************************************)

\* U+00A0, the non-breaking space, and U+00B2, superscript two.
NBSP == "{U+00A0}"
SUP2 == "{U+00B2}"

UpperChars == <<"A", "B", "C", "D", "E", "F", "G", "H", "I", "J", "K", "L", "M", "N", "O", "P", "Q", "R", "S", "T", "U", "V", "W", "X", "Y", "Z">>
LowerChars == <<"a", "b", "c", "d", "e", "f", "g", "h", "i", "j", "k", "l", "m", "n", "o", "p", "q", "r", "s", "t", "u", "v", "w", "x", "y", "z">>

\* str.isspace(): the characters str.strip() removes.
Whitespace == {" ", "\t", "\n", NBSP}

\* The characters str.isdigit() accepts: the decimal digits and the
\* characters of Unicode Numeric_Type=Digit, such as the superscript digits.
DigitChars == {"0", "1", "2", "3", "4", "5", "6", "7", "8", "9", SUP2}

LowerChar(c) ==
    IF \E i \in 1..26 : UpperChars[i] = c
      THEN LowerChars[CHOOSE i \in 1..26 : UpperChars[i] = c]
      ELSE c

\* str.lower()
Lower(s) == [i \in 1..Len(s) |-> LowerChar(s[i])]

RECURSIVE LStrip(_)
\* str.lstrip()
LStrip(s) == IF s = <<>> \/ Head(s) \notin Whitespace THEN s ELSE LStrip(Tail(s))

RECURSIVE RStrip(_)
\* str.rstrip()
RStrip(s) ==
    IF s = <<>> \/ s[Len(s)] \notin Whitespace THEN s
    ELSE RStrip(SubSeq(s, 1, Len(s) - 1))

\* str.strip()
Strip(s) == RStrip(LStrip(s))

RECURSIVE RStripColon(_)
\* str.rstrip(":")
RStripColon(s) ==
    IF s = <<>> \/ s[Len(s)] # ":" THEN s
    ELSE RStripColon(SubSeq(s, 1, Len(s) - 1))

\* str.replace("\xa0", "")
RemoveNbsp(s) == SelectSeq(s, LAMBDA c : c # NBSP)

\* str.startswith(p)
StartsWith(s, p) == Len(s) >= Len(p) /\ SubSeq(s, 1, Len(p)) = p

\* p in s
Contains(s, p) ==
    \E k \in 0..(Len(s) - Len(p)) : SubSeq(s, k + 1, k + Len(p)) = p

\* str.isdigit()
IsDigit(s) ==
    /\ s # <<>>
    /\ \A i \in 1..Len(s) : s[i] \in DigitChars

(***************************************************************************)
(* dict: an insertion-ordered sequence of <<key, value>> pairs             *)
(***************************************************************************)

Keys(d) == [i \in 1..Len(d) |-> d[i][1]]
HasKey(d, k) == \E i \in 1..Len(d) : d[i][1] = k
Get(d, k) == d[CHOOSE i \in 1..Len(d) : d[i][1] = k][2]

\* d[k] = v: a present key keeps its place and takes the new value.
DictPut(d, k, v) ==
    IF HasKey(d, k)
      THEN [i \in 1..Len(d) |-> IF d[i][1] = k THEN <<k, v>> ELSE d[i]]
      ELSE Append(d, <<k, v>>)

RECURSIVE DictZipFrom(_, _, _, _)
DictZipFrom(ks, vs, i, d) ==
    IF i > Len(ks) \/ i > Len(vs) THEN d
    ELSE DictZipFrom(ks, vs, i + 1, DictPut(d, ks[i], vs[i]))

\* dict(zip(ks, vs))
DictZip(ks, vs) == DictZipFrom(ks, vs, 1, <<>>)

(***************************************************************************)
(* Pages: a row is a sequence of cells, a cell has a tag and an inner text *)
(***************************************************************************)

Td(t) == [tag |-> "td", text |-> t]
Th(t) == [tag |-> "th", text |-> t]
TdRow(ts) == [i \in 1..Len(ts) |-> Td(ts[i])]

\* row.query_selector_all("td"), then inner_text() of each
TdTexts(row) ==
    LET tds == SelectSeq(row, LAMBDA c : c.tag = "td")
    IN  [i \in 1..Len(tds) |-> tds[i].text]

\* query_selector_all("td, th"), then inner_text() of each
CellTexts(row) == [i \in 1..Len(row) |-> row[i].text]

StripAll(ts) == [i \in 1..Len(ts) |-> Strip(ts[i])]

(***************************************************************************)
(* extract_timetable_and_faculty                                           *)
(***************************************************************************)

std_headers == <<<<"D", "a", "y">>, <<"P", "e", "r", "i", "o", "d", " ", "1">>, <<"P", "e", "r", "i", "o", "d", " ", "2">>, <<"P", "e", "r", "i", "o", "d", " ", "3">>, <<"B", "r", "e", "a", "k">>,
                 <<"P", "e", "r", "i", "o", "d", " ", "4">>, <<"P", "e", "r", "i", "o", "d", " ", "5">>, <<"P", "e", "r", "i", "o", "d", " ", "6">>, <<"P", "e", "r", "i", "o", "d", " ", "7">>>>

faculty_headers == <<<<"S", "u", "b", "j", "e", "c", "t", " ", "C", "o", "d", "e">>, <<"S", "u", "b", "j", "e", "c", "t">>, <<"F", "a", "c", "u", "l", "t", "y", " ", "N", "a", "m", "e">>, <<"I", "n", "i", "t", "i", "a", "l", "s">>>>

\* The header texts of a table: the cells of its first row, stripped.
TableHeaders(table) ==
    IF table = <<>> THEN <<>> ELSE StripAll(CellTexts(table[1]))

IsTimetableTable_ContainsDay(headers) ==
    \E i \in 1..Len(headers) :
        \/ Contains(Lower(headers[i]), <<"d", "a", "y">>)
        \/ Contains(Lower(headers[i]), <<"p", "e", "r", "i", "o", "d">>)

\* any(h.lower().startswith("day") or "period" in h.lower() for h in headers)
IsTimetableTable(headers) ==
    \E i \in 1..Len(headers) :
        \/ StartsWith(Lower(headers[i]), <<"d", "a", "y">>)
        \/ Contains(Lower(headers[i]), <<"p", "e", "r", "i", "o", "d">>)

\* any("subject code" in h.lower() or "faculty" in h.lower() for h in headers)
IsFacultyTable(headers) ==
    \E i \in 1..Len(headers) :
        \/ Contains(Lower(headers[i]), <<"s", "u", "b", "j", "e", "c", "t", " ", "c", "o", "d", "e">>)
        \/ Contains(Lower(headers[i]), <<"f", "a", "c", "u", "l", "t", "y">>)

\* [(await cell.inner_text()).strip().replace("\xa0", "") for cell in cells]
CellValues(row) ==
    LET ts == TdTexts(row)
    IN  [i \in 1..Len(ts) |-> RemoveNbsp(Strip(ts[i]))]

RECURSIVE TimetableRowsFrom(_, _)
TimetableRowsFrom(table, i) ==
    IF i > Len(table) THEN <<>>
    ELSE LET values == CellValues(table[i])
         IN  (IF Len(values) # Len(std_headers) THEN <<>>
              ELSE <<DictZip(std_headers, values)>>)
             \o TimetableRowsFrom(table, i + 1)

TimetableRows_NoHeaderSkip(table) == TimetableRowsFrom(table, 1)

\* for row in rows[1:]: the timetable records of one table
TimetableRows(table) == TimetableRowsFrom(table, 2)

FacultyRecord_InitialsOptional(values) ==
    <<<<faculty_headers[1], values[1]>>,
      <<faculty_headers[2], values[2]>>,
      <<faculty_headers[3], values[3]>>>>
    \o (IF Len(values) > 3 THEN <<<<faculty_headers[4], values[4]>>>> ELSE <<>>)

\* The dict literal of faculty.append, for a row of at least 3 values.
FacultyRecord(values) ==
    <<<<faculty_headers[1], values[1]>>,
      <<faculty_headers[2], IF Len(values) > 1 THEN values[2] ELSE <<>>>>,
      <<faculty_headers[3], IF Len(values) > 2 THEN values[3] ELSE <<>>>>,
      <<faculty_headers[4], IF Len(values) > 3 THEN values[4] ELSE <<>>>>>>

RECURSIVE FacultyRowsFrom(_, _)
FacultyRowsFrom(table, i) ==
    IF i > Len(table) THEN <<>>
    ELSE LET values == CellValues(table[i])
         IN  (IF Len(values) >= 3 THEN <<FacultyRecord(values)>> ELSE <<>>)
             \o FacultyRowsFrom(table, i + 1)

\* for row in rows[1:]: the faculty records of one table
FacultyRows(table) == FacultyRowsFrom(table, 2)

RECURSIVE ExtractTablesFrom(_, _)
ExtractTablesFrom(tables, k) ==
    IF k > Len(tables) THEN [timetable |-> <<>>, faculty |-> <<>>]
    ELSE LET headers == TableHeaders(tables[k])
             rest == ExtractTablesFrom(tables, k + 1)
         IN  [timetable |-> (IF IsTimetableTable(headers)
                               THEN TimetableRows(tables[k]) ELSE <<>>)
                            \o rest.timetable,
              faculty   |-> (IF IsFacultyTable(headers)
                               THEN FacultyRows(tables[k]) ELSE <<>>)
                            \o rest.faculty]

\* extract_timetable_and_faculty(page): (timetable, faculty)
extract_timetable_and_faculty(tables) == ExtractTablesFrom(tables, 1)

(***************************************************************************)
(* extract_academic_calendar                                               *)
(***************************************************************************)

RECURSIVE CalendarRowsFrom(_, _, _)
CalendarRowsFrom(rows, headers, i) ==
    IF i > Len(rows) THEN <<>>
    ELSE LET values == StripAll(TdTexts(rows[i]))
         IN  (IF Len(values) = Len(headers) THEN <<DictZip(headers, values)>> ELSE <<>>)
             \o CalendarRowsFrom(rows, headers, i + 1)

\* extract_academic_calendar(page); containers is what query_selector finds:
\* no table, or the rows of the first matching table.
extract_academic_calendar(containers) ==
    IF containers = <<>> THEN <<>>
    ELSE LET rows == containers[1]
         IN  IF rows = <<>> THEN <<>>
             ELSE CalendarRowsFrom(rows, StripAll(CellTexts(rows[1])), 2)

(***************************************************************************)
(* fetch_attendance and fetch_library_books: the row loops                 *)
(***************************************************************************)

attendance_headers == <<<<"S", "l", ".", "N", "o", ".">>, <<"S", "u", "b", "j", "e", "c", "t">>, <<"H", "e", "l", "d">>, <<"A", "t", "t", "e", "n", "d">>, <<"%">>>>

library_headers == <<<<"S", "l", ".", "N", "o">>, <<"A", "c", "c", ".", "N", "o">>, <<"T", "i", "t", "l", "e">>, <<"A", "u", "t", "h", "o", "r">>, <<"I", "s", "s", "u", "e", " ", "D", "a", "t", "e">>,
                     <<"D", "u", "e", " ", "D", "a", "t", "e">>, <<"F", "i", "n", "e", " ", "D", "a", "y", "s">>, <<"F", "i", "n", "e", " ", "A", "m", "o", "u", "n", "t">>>>

RECURSIVE NumberedRowsFrom(_, _, _)
NumberedRowsFrom(rows, headers, i) ==
    IF i > Len(rows) THEN <<>>
    ELSE LET vals == StripAll(TdTexts(rows[i]))
         IN  (IF Len(vals) = Len(headers) /\ IsDigit(vals[1])
                THEN <<DictZip(headers, vals)>> ELSE <<>>)
             \o NumberedRowsFrom(rows, headers, i + 1)

\* The loop of fetch_attendance over 'table.cellBorder tr'.
AttendanceData(rows) == NumberedRowsFrom(rows, attendance_headers, 1)

\* The loop of fetch_library_books over "table#tblbooks tr".
LibraryData(rows) == NumberedRowsFrom(rows, library_headers, 1)

(***************************************************************************)
(* fetch_bio_data: the personal table and the education table              *)
(***************************************************************************)

edu_fields == <<<<"B", "o", "a", "r", "d">>, <<"H", "a", "l", "l", "T", "i", "c", "k", "e", "t", "N", "o">>, <<"Y", "e", "a", "r", "O", "f", "P", "a", "s", "s">>, <<"I", "n", "s", "t", "i", "t", "u", "t", "e">>,
                <<"M", "a", "x", "M", "a", "r", "k", "s">>, <<"O", "b", "t", "a", "i", "n", "e", "d">>, <<"G", "r", "a", "d", "e", "L", "e", "t", "t", "e", "r">>, <<"G", "r", "a", "d", "e", "P", "o", "i", "n", "t", "s">>>>

key_ssc == <<"S", "c", "h", "o", "o", "l", " ", "(", "S", "S", "C", ")">>
key_inter == <<"I", "n", "t", "e", "r", "m", "e", "d", "i", "a", "t", "e">>
key_diploma == <<"D", "i", "p", "l", "o", "m", "a">>

EmptyEducation == [i \in 1..Len(edu_fields) |-> <<edu_fields[i], <<>>>>]

\* The edu dict before the row loop.
DefaultEdu == <<<<key_ssc, EmptyEducation>>,
                <<key_inter, EmptyEducation>>,
                <<key_diploma, EmptyEducation>>>>

\* The key chosen for a stripped, lower-cased qualification label; <<>> is None.
EduKey(qual) ==
    IF qual \in {<<"s", "s", "c">>, <<"s", ".", "s", ".", "c">>} THEN key_ssc
    ELSE IF qual \in {<<"i", "n", "t", "e", "r">>, <<"i", "n", "t", "e", "r", "m", "e", "d", "i", "a", "t", "e">>} THEN key_inter
    ELSE IF qual = <<"d", "i", "p", "l", "o", "m", "a">> THEN key_diploma
    ELSE <<>>

\* B, H, Y, I, Mx, Ob, GL, GP of a row with at least 7 td cells.
EduFieldValues(cells) ==
    [j \in 1..8 |-> IF Len(cells) > j THEN Strip(cells[j + 1]) ELSE <<>>]

EduStep_NoAnyCheck(edu, row) ==
    LET cells == TdTexts(row)
        qual == IF cells = <<>> THEN <<>> ELSE Lower(Strip(cells[1]))
    IN  IF Len(cells) < 7 \/ qual = <<>> \/ EduKey(qual) = <<>> THEN edu
        ELSE DictPut(edu, EduKey(qual), DictZip(edu_fields, EduFieldValues(cells)))

\* One iteration of the education loop.
EduStep(edu, row) ==
    LET cells == TdTexts(row)
        qual == IF cells = <<>> THEN <<>> ELSE Lower(Strip(cells[1]))
        vals == EduFieldValues(cells)
    IN  IF Len(cells) < 7 THEN edu
        ELSE IF qual = <<>> THEN edu
        ELSE IF EduKey(qual) = <<>> THEN edu
        ELSE IF \E j \in 1..8 : vals[j] # <<>>
               THEN DictPut(edu, EduKey(qual), DictZip(edu_fields, vals))
               ELSE edu

RECURSIVE EduLoop(_, _, _)
EduLoop(rows, i, edu) ==
    IF i > Len(rows) THEN edu
    ELSE EduLoop(rows, i + 1, EduStep(edu, rows[i]))

\* for i in range(1, await rows1.count()): the education dict
EducationData(rows) == EduLoop(rows, 2, DefaultEdu)

\* One iteration of the personal-table loop.
BioStep(bio, row) ==
    LET cells == TdTexts(row)
        Put(d, k, v) == IF k # <<>> /\ v # <<>> THEN DictPut(d, k, v) ELSE d
    IN  IF Len(cells) = 2
          THEN Put(bio, RStripColon(Strip(cells[1])), Strip(cells[2]))
        ELSE IF Len(cells) >= 6
          THEN Put(Put(bio, RStripColon(Strip(cells[1])), Strip(cells[3])),
                   RStripColon(Strip(cells[4])), Strip(cells[6]))
        ELSE bio

RECURSIVE BioLoop(_, _, _)
BioLoop(rows, i, bio) ==
    IF i > Len(rows) THEN bio
    ELSE BioLoop(rows, i + 1, BioStep(bio, rows[i]))

\* for i in range(await rows0.count()): the personal dict
BioData(rows) == BioLoop(rows, 1, <<>>)

\* result = {"BioData": bio, "Education": edu}
BioResult(p) == <<<<<<"B", "i", "o", "D", "a", "t", "a">>, BioData(p.bio)>>,
                  <<<<"E", "d", "u", "c", "a", "t", "i", "o", "n">>, EducationData(p.edu)>>>>

(***************************************************************************)
(* The extraction machine: a page is loaded, then one routine reads it     *)
(***************************************************************************)

\* Bounds of the page contents.
MaxTables == 2
MaxRows == 3

SeqsUpTo(S, n) == UNION {[1..k -> S] : k \in 0..n}

\* First rows of the tables of the timetable page.
HeaderRowSamples == {
    TdRow(std_headers),
    <<Th(<<" ", "D", "A", "Y", " ">>), Th(<<"P", "E", "R", "I", "O", "D", " ", "1">>)>>,
    TdRow(<<<<"S", "u", "b", "j", "e", "c", "t", " ", "C", "o", "d", "e">>, <<"S", "u", "b", "j", "e", "c", "t">>, <<"F", "a", "c", "u", "l", "t", "y", " ", "N", "a", "m", "e">>>>),
    TdRow(<<<<"D", "a", "y">>, <<"F", "A", "C", "U", "L", "T", "Y">>>>),
    TdRow(<<<<"M", "o", "n", "d", "a", "y">>, <<"N", "a", "m", "e">>>>),
    <<>> }

RowNine == TdRow(<<<<"M", "o", "n">>, <<"M", "1">>, <<"P", "1">>, <<"C", "1">>, <<>>, <<"E", "1">>, <<"M", "2">>, <<"P", "2">>, <<"C", "2">>>>)
RowNineNbsp == TdRow(<<<<" ", "T", "u", "e", " ">>, <<NBSP>>, <<NBSP>>, <<"C", NBSP, "1">>, <<NBSP>>, <<NBSP>>, <<NBSP>>, <<NBSP>>, <<NBSP>>>>)
RowNineTh == <<Th(<<"W", "e", "d">>)>> \o TdRow(<<<<"a">>, <<"b">>, <<"c">>, <<"d">>, <<"e">>, <<"f">>, <<"g">>, <<"h">>>>)
RowEight == TdRow(<<<<"T", "h", "u">>, <<"a">>, <<"b">>, <<"c">>, <<"d">>, <<"e">>, <<"f">>, <<"g">>>>)
RowTen == TdRow(<<<<"F", "r", "i">>, <<"a">>, <<"b">>, <<"c">>, <<"d">>, <<"e">>, <<"f">>, <<"g">>, <<"h">>, <<"i">>>>)
RowFour == TdRow(<<<<"C", "S", "1", "0", "1">>, <<"M", "a", "t", "h", "s">>, <<"R", "a", "o">>, <<"K", "R">>>>)
RowThree == TdRow(<<<<"C", "S", "1", "0", "2">>, <<"P", "h", "y", "s", "i", "c", "s">>, <<" ", "D", "e", "v", "i", NBSP>>>>)
RowTwo == TdRow(<<<<"C", "S", "1", "0", "3">>, <<"C", "h", "e", "m", "i", "s", "t", "r", "y">>>>)

\* The rows that follow the first row of a table.
BodyRowSamples == {
    <<>>,
    <<RowNine, RowEight, RowFour>>,
    <<RowThree, RowNineNbsp, RowNineTh, RowTwo, RowTen>> }

\* A table is the sequence of its rows; a table may have no row at all.
TableSamples ==
    {<<>>} \cup {<<h>> \o b : h \in HeaderRowSamples, b \in BodyRowSamples}

TimetablePages == SeqsUpTo(TableSamples, MaxTables)

\* Rows of the academic calendar table.
CalendarRowSamples == {
    TdRow(<<<<"E", "v", "e", "n", "t">>, <<"F", "r", "o", "m">>, <<"T", "o">>>>),
    <<Th(<<" ", "S", "l", ".", "N", "o", " ">>), Th(<<"A", "c", "t", "i", "v", "i", "t", "y">>)>>,
    TdRow(<<<<"D", "a", "t", "e">>, <<"D", "a", "t", "e">>, <<"R", "e", "m", "a", "r", "k">>>>),
    TdRow(<<<<"1">>, <<" ", "C", "l", "a", "s", "s", "e", "s", " ", "b", "e", "g", "i", "n", " ">>>>),
    TdRow(<<<<"M", "i", "d", " ", "e", "x", "a", "m", "s">>, <<"0", "1", "-", "0", "9">>, <<"0", "6", "-", "0", "9">>>>) }

CalendarPages == {<<>>} \cup {<<rows>> : rows \in SeqsUpTo(CalendarRowSamples, MaxRows)}

\* Rows of 'table.cellBorder'.
AttendanceRowSamples == {
    TdRow(<<<<"1">>, <<"M", "a", "t", "h", "s">>, <<"4", "0">>, <<"3", "8">>, <<"9", "5", ".", "0">>>>),
    TdRow(<<<<" ", "1", "2", NBSP>>, <<"P", "h", "y", "s", "i", "c", "s">>, <<"3", "0">>, <<"1", "5">>, <<"5", "0", ".", "0">>>>),
    TdRow(<<<<"T", "o", "t", "a", "l">>, <<>>, <<>>, <<>>, <<>>>>),
    TdRow(<<<<>>, <<"L", "a", "b">>, <<"1", "0">>, <<"1", "0">>, <<"1", "0", "0">>>>),
    TdRow(<<<<SUP2>>, <<"C", "h", "e", "m", "i", "s", "t", "r", "y">>, <<"2", "0">>, <<"1", "0">>, <<"5", "0", ".", "0">>>>),
    TdRow(<<<<"-", "1">>, <<"D", "r", "a", "w", "i", "n", "g">>, <<"2", "0">>, <<"1", "0">>, <<"5", "0", ".", "0">>>>),
    TdRow(<<<<"3">>, <<"E", "n", "g", "l", "i", "s", "h">>, <<"2", "0">>, <<"1", "9">>>>),
    TdRow(<<<<"4">>, <<"B", "i", "o", "l", "o", "g", "y">>, <<"2", "0">>, <<"1", "9">>, <<"9", "5", ".", "0">>, <<"x">>>>),
    <<Th(<<"S", "l", ".", "N", "o", ".">>), Th(<<"S", "u", "b", "j", "e", "c", "t">>), Th(<<"H", "e", "l", "d">>), Th(<<"A", "t", "t", "e", "n", "d">>), Th(<<"%">>)>> }

AttendancePages == SeqsUpTo(AttendanceRowSamples, MaxRows)

\* Rows of "table#tblbooks".
LibraryRowSamples == {
    TdRow(<<<<"1">>, <<"A", "1", "0", "0">>, <<"A", "l", "g", "e", "b", "r", "a">>, <<"L", "a", "n", "g">>, <<"0", "1", "-", "0", "1">>, <<"1", "5", "-", "0", "1">>, <<"0">>, <<"0">>>>),
    TdRow(<<<<"S", "l", ".", "N", "o">>, <<"A", "c", "c", ".", "N", "o">>, <<"T", "i", "t", "l", "e">>, <<"A", "u", "t", "h", "o", "r">>, <<"I", "s", "s", "u", "e", " ", "D", "a", "t", "e">>, <<"D", "u", "e", " ", "D", "a", "t", "e">>,
            <<"F", "i", "n", "e", " ", "D", "a", "y", "s">>, <<"F", "i", "n", "e", " ", "A", "m", "o", "u", "n", "t">>>>),
    TdRow(<<<<"2">>, <<"A", "2", "0", "0">>, <<"O", "p", "t", "i", "c", "s">>, <<"B", "o", "r", "n">>, <<"0", "2", "-", "0", "1">>, <<"1", "6", "-", "0", "1">>, <<"3">>>>),
    TdRow(<<<<" ", "3", " ">>, <<"A", "3", "0", "0">>, <<"L", "o", "g", "i", "c">>, <<"Q", "u", "i", "n", "e">>, <<"0", "3", "-", "0", "1">>, <<"1", "7", "-", "0", "1">>, <<"1">>, <<"5">>>>) }

LibraryPages == SeqsUpTo(LibraryRowSamples, MaxRows)

\* Rows of the nested education table.
EduRowSamples == {
    TdRow(<<<<"Q", "u", "a", "l", "i", "f", "i", "c", "a", "t", "i", "o", "n">>, <<"B", "o", "a", "r", "d">>, <<"H", "a", "l", "l", " ", "T", "i", "c", "k", "e", "t">>, <<"Y", "e", "a", "r">>, <<"I", "n", "s", "t", "i", "t", "u", "t", "e">>,
            <<"M", "a", "x">>, <<"O", "b", "t", "a", "i", "n", "e", "d">>, <<"G", "r", "a", "d", "e">>, <<"P", "o", "i", "n", "t", "s">>>>),
    TdRow(<<<<" ", "S", "S", "C", " ">>, <<"C", "B", "S", "E">>, <<"H", "1">>, <<"2", "0", "1", "8">>, <<"D", "P", "S">>, <<"6", "0", "0">>, <<"5", "4", "0">>, <<"A">>, <<"9", ".", "0">>>>),
    TdRow(<<<<"s", "s", "c">>, <<"I", "C", "S", "E">>, <<>>, <<"2", "0", "1", "9">>, <<>>, <<>>, <<>>, <<>>, <<>>>>),
    TdRow(<<<<"S", ".", "S", ".", "C">>, <<" ">>, <<>>, <<NBSP>>, <<>>, <<>>, <<" ">>, <<>>, <<>>>>),
    TdRow(<<<<"I", "n", "t", "e", "r">>, <<>>, <<>>, <<>>, <<"N", "a", "r", "a", "y", "a", "n", "a">>, <<>>, <<>>>>),
    TdRow(<<<<"I", "N", "T", "E", "R", "M", "E", "D", "I", "A", "T", "E">>, <<>>, <<>>, <<>>, <<>>, <<>>, <<>>, <<"B">>>>),
    TdRow(<<<<"d", "i", "p", "l", "o", "m", "a">>, <<>>, <<>>, <<>>, <<>>, <<>>, <<>>, <<>>, <<"7", ".", "5">>>>),
    TdRow(<<<<"B", ".", "T", "e", "c", "h">>, <<"J", "N", "T", "U">>, <<"H", "9">>, <<"2", "0", "2", "4">>, <<"G", "R", "I", "E", "T">>, <<"1", "0", "0">>, <<"8", "0">>, <<"A">>, <<"8", ".", "0">>>>),
    TdRow(<<<<" ", " ">>, <<"X">>, <<"H", "0">>, <<"2", "0", "0", "0">>, <<"Y">>, <<"1">>, <<"1">>, <<"C">>, <<"1", ".", "0">>>>),
    TdRow(<<<<"S", "S", "C">>, <<"S", "B", "T", "E", "T">>, <<"H", "2">>, <<"2", "0", "1", "7">>, <<"Z", "P", "H", "S">>, <<"5", "0", "0">>>>) }

\* Rows of the personal table.
BioRowSamples == {
    TdRow(<<<<"N", "a", "m", "e", " ", ":">>, <<" ", "A", "s", "h", "a", " ">>>>),
    TdRow(<<<<"R", "o", "l", "l", " ", "N", "o", ":">>, <<":">>, <<"2", "1", "A", "1">>, <<"B", "r", "a", "n", "c", "h">>, <<":">>, <<"C", "S", "E">>>>),
    TdRow(<<<<"N", "a", "m", "e">>, <<"R", "a", "v", "i">>>>),
    TdRow(<<<<"E", "m", "a", "i", "l", ":">>, <<" ">>>>),
    TdRow(<<<<"P", "h", "o", "t", "o">>, <<"x">>, <<"y">>>>) }

FixedBioRows == <<TdRow(<<<<"N", "a", "m", "e", " ", ":">>, <<" ", "A", "s", "h", "a", " ">>>>)>>
FixedEduRows == <<TdRow(<<<<"Q", "u", "a", "l", "i", "f", "i", "c", "a", "t", "i", "o", "n">>, <<"B", "o", "a", "r", "d">>>>)>>

\* What the two locators of the profile page find.
BioPages ==
    {[bio |-> FixedBioRows, edu |-> e] : e \in SeqsUpTo(EduRowSamples, MaxRows)}
    \cup {[bio |-> b, edu |-> FixedEduRows] : b \in SeqsUpTo(BioRowSamples, MaxRows)}

Reports == {"timetable", "calendar", "attendance", "library", "bio_data"}

PagesOf(r) ==
    CASE r = "timetable"  -> TimetablePages
      [] r = "calendar"   -> CalendarPages
      [] r = "attendance" -> AttendancePages
      [] r = "library"    -> LibraryPages
      [] r = "bio_data"   -> BioPages

IdleHttp ==
    /\ route = "none"
    /\ body = "none"
    /\ hpc = "idle"
    /\ todo = <<>>
    /\ scraper = "none"
    /\ spc = 0
    /\ outcome = "idle"
    /\ sessions = 0
    /\ closes = 0
    /\ pwActive = FALSE
    /\ trace = <<>>
    /\ started = <<>>
    /\ results = {}
    /\ status = 0
    /\ reply = "none"
    /\ raisedAny = FALSE
    /\ failedAt = "none"

InitExtract ==
    /\ IdleHttp
    /\ report \in Reports
    /\ page \in PagesOf(report)
    /\ result = <<>>
    /\ xpc = "loaded"

Extracted(r, value) ==
    /\ report = r
    /\ xpc = "loaded"
    /\ result' = value
    /\ xpc' = "extracted"
    /\ UNCHANGED <<report, page>>
    /\ UNCHANGED httpVars

RunTimetable == Extracted("timetable", extract_timetable_and_faculty(page))
RunCalendar == Extracted("calendar", extract_academic_calendar(page))
RunAttendance == Extracted("attendance", AttendanceData(page))
RunLibrary == Extracted("library", LibraryData(page))
RunBioData == Extracted("bio_data", BioResult(page))

NextExtract ==
    \/ RunTimetable
    \/ RunCalendar
    \/ RunAttendance
    \/ RunLibrary
    \/ RunBioData

SpecExtract == InitExtract /\ [][NextExtract]_vars

(***************************************************************************)
(* Properties of the request machine                                       *)
(***************************************************************************)

Range(f) == {f[i] : i \in DOMAIN f}
Occurs(e) == \E i \in 1..Len(trace) : trace[i] = e
Before(a, b) == \A i, j \in 1..Len(trace) : trace[i] = a /\ trace[j] = b => i < j
IsPrefix(s, t) == Len(s) <= Len(t) /\ \A i \in 1..Len(s) : s[i] = t[i]
InvocationEnded == outcome \in {"returned", "raised"}

\* The session of the current invocation is open just before event i.
OpenAt(i) ==
    /\ \E j \in 1..(i - 1) : trace[j] = "launch"
    /\ \A k \in 1..(i - 1) : trace[k] # "close"

\* C1: every scrape invocation that launched a browser, whether it returned
\* or raised, has called browser.close() exactly once when it ends, and no
\* session is left open.
C1_ExactlyOneCloseOnEveryExit ==
    (InvocationEnded /\ Occurs("launch")) => (closes = 1 /\ sessions = 0)

\* C2: within one /get-all request the scrapers are called in the order
\* timetable+calendar, attendance, library, bio-data; a scraper starts only
\* when no session is open, and never are two sessions open at once.
C2_SequentialSessions ==
    route = "/get-all" =>
        /\ sessions <= 1
        /\ IsPrefix(started, <<"fetch_timetable_and_calendar", "fetch_attendance",
                               "fetch_library_books", "fetch_bio_data">>)
        /\ (Running /\ ~Occurs("launch") => sessions = 0)
        /\ (ENABLED StartScraper => sessions = 0)

C2_Witness ==
    /\ route = "/get-all"
    /\ Len(started) = 4
    /\ sessions = 1
    /\ Occurs("extract")

\* C3 as stated: whenever an exception was raised anywhere in the request,
\* the response is 500 with an "error" body.
C3_AnyRaisedException500 ==
    (hpc = "done" /\ raisedAny) => (status = 500 /\ reply = "error")

\* C3 amended: the response is 200 {"data": ...} exactly when the body parsed
\* and every scraper of the route returned, and 500 {"error": ...} exactly
\* when an exception reached the handler; an exception swallowed by a
\* best-effort interaction does not fail the request; every exception that
\* leaves a scraper or the body parsing is caught, and after it no scraper
\* is started again.
C3_StatusByPropagation ==
    /\ hpc # "done" => (status = 0 /\ reply = "none")
    /\ hpc = "done" =>
          \/ /\ status = 200
             /\ reply = "data"
             /\ failedAt = "none"
             /\ body = "ok"
             /\ results = Range(RouteScrapers(route))
          \/ /\ status = 500
             /\ reply = "error"
             /\ failedAt # "none"
    /\ (failedAt # "none" /\ hpc # "done") => ENABLED CatchException
    /\ failedAt # "none" => ~ENABLED StartScraper
    /\ \A i, j \in 1..Len(started) : started[i] = started[j] => i = j

C3_Witness ==
    /\ hpc = "done"
    /\ status = 200
    /\ raisedAny
    /\ Occurs("swallowed")

\* C9 as stated: in every scraper no artifact file is written while the
\* scraper's session is still open.
C9_NoWriteWhileSessionOpen ==
    \A i \in 1..Len(trace) : IsWrite(trace[i]) => ~OpenAt(i)

\* C9 amended: fetch_attendance, fetch_library_books and fetch_bio_data go
\* launch, navigate, extract, close, persist, return, and write no artifact
\* while the session is open; fetch_timetable_and_calendar writes its
\* artifacts during extraction, while its session is still open, and only
\* then closes the session and returns.
C9_StepOrder ==
    /\ Before("launch", "goto_report")
    /\ Before("goto_report", "extract")
    /\ Before("extract", "close")
    /\ Before("close", "return")
    /\ outcome = "returned" =>
          /\ Occurs("launch") /\ Occurs("goto_report") /\ Occurs("extract")
          /\ Occurs("close")
          /\ trace[Len(trace)] = "return"
    /\ scraper \in {"fetch_attendance", "fetch_library_books", "fetch_bio_data"} =>
          /\ \A i \in 1..Len(trace) :
                IsWrite(trace[i]) =>
                    /\ ~OpenAt(i)
                    /\ \E j \in 1..(i - 1) : trace[j] = "close"
          /\ outcome = "returned" =>
                \A k \in 1..2 : Occurs(WriteEvent(PersistFiles(scraper)[k]))
    /\ scraper = "fetch_timetable_and_calendar" =>
          \A i \in 1..Len(trace) : IsWrite(trace[i]) => OpenAt(i)

C9_Witness ==
    /\ scraper = "fetch_timetable_and_calendar"
    /\ outcome = "returned"
    /\ Occurs(WriteEvent("timetable.json"))
    /\ Occurs(WriteEvent("academic_calendar.json"))

\* C10 as stated: a timeout of the timetable marker wait does not prevent
\* the other reports of the same /get-all request from being scraped and
\* returned.
C10_OtherReportsStillReturned ==
    (hpc = "done" /\ failedAt = "wait_marker" /\ route = "/get-all") =>
        {"fetch_attendance", "fetch_library_books", "fetch_bio_data"} \subseteq results

\* C10 amended: when the marker wait times out, the exception leaves
\* fetch_timetable_and_calendar: the academic calendar is not scraped, no
\* result is kept, no further scraper of the request is started, and the
\* response is 500 {"error": ...}.
C10_TimeoutFailsRequest ==
    failedAt = "wait_marker" =>
        /\ scraper = "fetch_timetable_and_calendar"
        /\ outcome = "raised"
        /\ ~Occurs("extract") /\ ~Occurs("extract_calendar")
        /\ results = {}
        /\ started = <<"fetch_timetable_and_calendar">>
        /\ ~ENABLED StartScraper
        /\ hpc = "done" => (status = 500 /\ reply = "error")

C10_Witness ==
    /\ failedAt = "wait_marker"
    /\ route = "/get-all"
    /\ hpc = "done"
    /\ todo # <<>>


(***************************************************************************)
(* Properties of the extraction machine                                    *)
(***************************************************************************)

Done(r) == report = r /\ xpc = "extracted"
NumTd(row) == Len(TdTexts(row))
CountIn(s, x) == Cardinality({i \in 1..Len(s) : s[i] = x})
SameBag(s, t) == Len(s) = Len(t) /\ \A i \in 1..Len(s) : CountIn(s, s[i]) = CountIn(t, s[i])
Last(S) == CHOOSE i \in S : \A j \in S : j <= i

\* A string of one or more decimal digits 0-9.
IsNonNegativeIntegerString(s) ==
    /\ Len(s) >= 1
    /\ \A i \in 1..Len(s) : s[i] \in {"0", "1", "2", "3", "4", "5", "6", "7", "8", "9"}

\* The attendance rows the claim keeps: exactly 5 cells, the trimmed first
\* of them a valid non-negative integer string.
C4_KeptRows ==
    {i \in 1..Len(page) :
        /\ NumTd(page[i]) = 5
        /\ IsNonNegativeIntegerString(Strip(TdTexts(page[i])[1]))}

\* C4: an attendance Record is emitted for a row iff the row has exactly 5
\* cells and its trimmed first cell is a valid non-negative integer string;
\* the Record maps Sl.No., Subject, Held, Attend, % to the cells by position.
C4_AttendanceRecordIffNumbered ==
    Done("attendance") =>
        /\ Len(result) = Cardinality(C4_KeptRows)
        /\ \A i \in C4_KeptRows :
              \E j \in 1..Len(result) :
                  result[j] = [c \in 1..5 |->
                                  <<<<<<"S", "l", ".", "N", "o", ".">>, <<"S", "u", "b", "j", "e", "c", "t">>, <<"H", "e", "l", "d">>, <<"A", "t", "t", "e", "n", "d">>, <<"%">>>>[c],
                                    Strip(TdTexts(page[i])[c])>>]

\* Some header text of the table's first row starts with "day" or contains
\* "period", whatever its case.
C6_TimetableHeader(table) ==
    /\ Len(table) >= 1
    /\ \E c \in 1..Len(table[1]) :
          LET h == Lower(Strip(table[1][c].text))
          IN  \/ Len(h) >= 3 /\ <<h[1], h[2], h[3]>> = <<"d", "a", "y">>
              \/ \E k \in 1..Len(h) : k + 5 <= Len(h) /\ SubSeq(h, k, k + 5) = <<"p", "e", "r", "i", "o", "d">>

\* Some header text of the table's first row contains "subject code" or
\* "faculty", whatever its case.
C6_FacultyHeader(table) ==
    /\ Len(table) >= 1
    /\ \E c \in 1..Len(table[1]) :
          LET h == Lower(Strip(table[1][c].text))
          IN  \/ \E k \in 1..Len(h) : k + 11 <= Len(h) /\ SubSeq(h, k, k + 11) = <<"s", "u", "b", "j", "e", "c", "t", " ", "c", "o", "d", "e">>
              \/ \E k \in 1..Len(h) : k + 6 <= Len(h) /\ SubSeq(h, k, k + 6) = <<"f", "a", "c", "u", "l", "t", "y">>

\* The rows, from row number first on, of the timetable tables of the page
\* that have exactly 9 td cells.
C5_NineCellRows(first) ==
    UNION {{<<k, i>> : i \in {i \in first..Len(page[k]) : NumTd(page[k][i]) = 9}} :
              k \in {k \in 1..Len(page) : C6_TimetableHeader(page[k])}}

\* C5 as stated: every row of a timetable table, its first row included,
\* yields a Record iff it has exactly 9 cells.
C5_EveryRowIffNineCells ==
    Done("timetable") => Len(result.timetable) = Cardinality(C5_NineCellRows(1))

\* C5 amended: every row after the first (header) row of a table classified
\* as a timetable yields a timetable Record iff it has exactly 9 td cells;
\* the first row never yields one.
C5_DataRowIffNineCells ==
    Done("timetable") =>
        /\ Len(result.timetable) = Cardinality(C5_NineCellRows(2))
        /\ \A s \in C5_NineCellRows(2) :
              \E j \in 1..Len(result.timetable) :
                  \A c \in 1..9 :
                      result.timetable[j][c][2]
                          = RemoveNbsp(Strip(TdTexts(page[s[1]][s[2]])[c]))

C5_Witness ==
    /\ Done("timetable")
    /\ Len(page) >= 1
    /\ C6_TimetableHeader(page[1])
    /\ NumTd(page[1][1]) = 9
    /\ \E i \in 2..Len(page[1]) : NumTd(page[1][i]) = 9
    /\ \E i \in 2..Len(page[1]) : NumTd(page[1][i]) # 9
    /\ Len(result.timetable) >= 1

\* The rows after the first of the faculty tables with at least 3 td cells.
C6_FacultyRows ==
    UNION {{<<k, i>> : i \in {i \in 2..Len(page[k]) : NumTd(page[k][i]) >= 3}} :
              k \in {k \in 1..Len(page) : C6_FacultyHeader(page[k])}}

\* The page with its tables in reverse order, and with its first table moved
\* to the end: the two reorderings from which every other one is composed.
Reversed(p) == [k \in 1..Len(p) |-> p[Len(p) + 1 - k]]
Rotated(p) == IF p = <<>> THEN p ELSE Append(Tail(p), Head(p))

\* C6: each table is classified by its own first-row header texts, once per
\* heuristic: it contributes timetable Records iff a header starts with "day"
\* or contains "period", and faculty Records iff a header contains "subject
\* code" or "faculty"; a table matching neither contributes nothing, one
\* matching both contributes to both, and reordering the tables of the page
\* changes neither kind's Records, only their order.
C6_ClassificationPerTable ==
    Done("timetable") =>
        /\ Len(result.timetable) = Cardinality(C5_NineCellRows(2))
        /\ Len(result.faculty) = Cardinality(C6_FacultyRows)
        /\ \A other \in {extract_timetable_and_faculty(Reversed(page)),
                           extract_timetable_and_faculty(Rotated(page))} :
              /\ SameBag(result.timetable, other.timetable)
              /\ SameBag(result.faculty, other.faculty)
        /\ \A k \in 1..Len(page) :
              LET alone == extract_timetable_and_faculty(<<page[k]>>)
              IN  /\ ~C6_TimetableHeader(page[k]) => alone.timetable = <<>>
                  /\ ~C6_FacultyHeader(page[k]) => alone.faculty = <<>>

C6_Witness ==
    /\ Done("timetable")
    /\ Len(page) = 2
    /\ C6_TimetableHeader(page[1]) /\ C6_FacultyHeader(page[1])
    /\ ~C6_TimetableHeader(page[2]) /\ ~C6_FacultyHeader(page[2])
    /\ \E i \in 2..Len(page[2]) : NumTd(page[2][i]) = 9
    /\ Len(result.timetable) >= 1
    /\ Len(result.faculty) > Len(result.timetable)

\* The qualification labels of each of the three education records.
C7_Labels(key) ==
    CASE key = <<"S", "c", "h", "o", "o", "l", " ", "(", "S", "S", "C", ")">> -> {<<"s", "s", "c">>, <<"s", ".", "s", ".", "c">>}
      [] key = <<"I", "n", "t", "e", "r", "m", "e", "d", "i", "a", "t", "e">> -> {<<"i", "n", "t", "e", "r">>, <<"i", "n", "t", "e", "r", "m", "e", "d", "i", "a", "t", "e">>}
      [] key = <<"D", "i", "p", "l", "o", "m", "a">>      -> {<<"d", "i", "p", "l", "o", "m", "a">>}

\* The eight fields extracted from an education row.
C7_Fields(row) ==
    LET c == TdTexts(row)
    IN  [j \in 1..8 |-> IF j + 1 <= Len(c) THEN Strip(c[j + 1]) ELSE <<>>]

\* The education row is one that replaces the record of key.
C7_Replaces(row, key) ==
    /\ NumTd(row) >= 7
    /\ Lower(Strip(TdTexts(row)[1])) \in C7_Labels(key)
    /\ \E j \in 1..8 : C7_Fields(row)[j] # <<>>

\* The record of key after the rows from row number first on were applied.
C7_Expected(key, first) ==
    LET rows == page.edu
        Q == {i \in first..Len(rows) : C7_Replaces(rows[i], key)}
    IN  IF Q = {} THEN [j \in 1..8 |-> <<edu_fields[j], <<>>>>]
        ELSE [j \in 1..8 |-> <<edu_fields[j], C7_Fields(rows[Last(Q)])[j]>>]

C7_Keys == <<<<"S", "c", "h", "o", "o", "l", " ", "(", "S", "S", "C", ")">>, <<"I", "n", "t", "e", "r", "m", "e", "d", "i", "a", "t", "e">>, <<"D", "i", "p", "l", "o", "m", "a">>>>

\* C7 as stated: every education row with a recognised label and some
\* non-empty field, the first row of the table included, replaces its record.
C7_EveryRowOverwrites ==
    Done("bio_data") =>
        \A k \in 1..3 : Get(Get(result, <<"E", "d", "u", "c", "a", "t", "i", "o", "n">>), C7_Keys[k]) = C7_Expected(C7_Keys[k], 1)

\* C7 amended: an education row after the first (header) row, with at least
\* 7 td cells and a recognised label, replaces its record iff one of its
\* eight extracted fields is non-empty; the first row, a recognised row with
\* all fields empty, an unrecognised or empty label and a row with fewer than
\* 7 td cells change nothing; the result has exactly the keys School (SSC),
\* Intermediate, Diploma, in this order.
C7_OverwriteRule ==
    Done("bio_data") =>
        /\ Keys(Get(result, <<"E", "d", "u", "c", "a", "t", "i", "o", "n">>)) = C7_Keys
        /\ \A k \in 1..3 :
              Get(Get(result, <<"E", "d", "u", "c", "a", "t", "i", "o", "n">>), C7_Keys[k]) = C7_Expected(C7_Keys[k], 2)

C7_Witness ==
    /\ Done("bio_data")
    /\ Len(page.edu) = 3
    /\ C7_Replaces(page.edu[2], <<"S", "c", "h", "o", "o", "l", " ", "(", "S", "S", "C", ")">>)
    /\ NumTd(page.edu[3]) >= 7
    /\ Lower(Strip(TdTexts(page.edu[3])[1])) \in C7_Labels(<<"S", "c", "h", "o", "o", "l", " ", "(", "S", "S", "C", ")">>)
    /\ ~C7_Replaces(page.edu[3], <<"S", "c", "h", "o", "o", "l", " ", "(", "S", "S", "C", ")">>)
    /\ Get(Get(result, <<"E", "d", "u", "c", "a", "t", "i", "o", "n">>), <<"S", "c", "h", "o", "o", "l", " ", "(", "S", "S", "C", ")">>)[1][2] # <<>>

C8_TimetableSchema == <<<<"D", "a", "y">>, <<"P", "e", "r", "i", "o", "d", " ", "1">>, <<"P", "e", "r", "i", "o", "d", " ", "2">>, <<"P", "e", "r", "i", "o", "d", " ", "3">>, <<"B", "r", "e", "a", "k">>,
                        <<"P", "e", "r", "i", "o", "d", " ", "4">>, <<"P", "e", "r", "i", "o", "d", " ", "5">>, <<"P", "e", "r", "i", "o", "d", " ", "6">>, <<"P", "e", "r", "i", "o", "d", " ", "7">>>>
C8_FacultySchema == <<<<"S", "u", "b", "j", "e", "c", "t", " ", "C", "o", "d", "e">>, <<"S", "u", "b", "j", "e", "c", "t">>, <<"F", "a", "c", "u", "l", "t", "y", " ", "N", "a", "m", "e">>, <<"I", "n", "i", "t", "i", "a", "l", "s">>>>
C8_AttendanceSchema == <<<<"S", "l", ".", "N", "o", ".">>, <<"S", "u", "b", "j", "e", "c", "t">>, <<"H", "e", "l", "d">>, <<"A", "t", "t", "e", "n", "d">>, <<"%">>>>
C8_LibrarySchema == <<<<"S", "l", ".", "N", "o">>, <<"A", "c", "c", ".", "N", "o">>, <<"T", "i", "t", "l", "e">>, <<"A", "u", "t", "h", "o", "r">>, <<"I", "s", "s", "u", "e", " ", "D", "a", "t", "e">>,
                      <<"D", "u", "e", " ", "D", "a", "t", "e">>, <<"F", "i", "n", "e", " ", "D", "a", "y", "s">>, <<"F", "i", "n", "e", " ", "A", "m", "o", "u", "n", "t">>>>
C8_EducationSchema == <<<<"B", "o", "a", "r", "d">>, <<"H", "a", "l", "l", "T", "i", "c", "k", "e", "t", "N", "o">>, <<"Y", "e", "a", "r", "O", "f", "P", "a", "s", "s">>, <<"I", "n", "s", "t", "i", "t", "u", "t", "e">>,
                        <<"M", "a", "x", "M", "a", "r", "k", "s">>, <<"O", "b", "t", "a", "i", "n", "e", "d">>, <<"G", "r", "a", "d", "e", "L", "e", "t", "t", "e", "r">>, <<"G", "r", "a", "d", "e", "P", "o", "i", "n", "t", "s">>>>

AllHaveKeys(records, schema) == \A j \in 1..Len(records) : Keys(records[j]) = schema

\* C8 amended: the Records of the timetable, the faculty allocation, the
\* attendance and the library report, and the three education records of the
\* bio-data report, have the same field names in the same order for every
\* page; the bio-data result has the keys BioData and Education.
C8_FixedSchemas ==
    /\ Done("timetable") =>
          /\ AllHaveKeys(result.timetable, C8_TimetableSchema)
          /\ AllHaveKeys(result.faculty, C8_FacultySchema)
    /\ Done("attendance") => AllHaveKeys(result, C8_AttendanceSchema)
    /\ Done("library") => AllHaveKeys(result, C8_LibrarySchema)
    /\ Done("bio_data") =>
          /\ Keys(result) = <<<<"B", "i", "o", "D", "a", "t", "a">>, <<"E", "d", "u", "c", "a", "t", "i", "o", "n">>>>
          /\ Keys(Get(result, <<"E", "d", "u", "c", "a", "t", "i", "o", "n">>)) = C7_Keys
          /\ \A k \in 1..3 :
                Keys(Get(Get(result, <<"E", "d", "u", "c", "a", "t", "i", "o", "n">>), C7_Keys[k])) = C8_EducationSchema

\* The field names of the academic-calendar Records are the same, whatever
\* the page.
C8_CalendarSchemaFixed ==
    Done("calendar") =>
        \A q \in CalendarPages :
            LET other == extract_academic_calendar(q)
            IN  \A i \in 1..Len(result), j \in 1..Len(other) :
                    Keys(result[i]) = Keys(other[j])

\* C8 as stated: for every report type, the calendar included, the field
\* names and order of the Records do not depend on the texts of the page.
C8_SchemaFixedForEveryReport ==
    C8_FixedSchemas /\ C8_CalendarSchemaFixed

C8_Witness ==
    /\ Done("timetable")
    /\ Len(result.timetable) >= 1
    /\ \E j \in 1..Len(result.faculty) : result.faculty[j][4][2] = <<>>
    /\ \E j \in 1..Len(result.faculty) : result.faculty[j][4][2] # <<>>

====
